---- MODULE Spec2Model ----
(***************************************************************************)
(* Task prioritisation scoring of the Sales Operator app                   *)
(* (services/task_service.py, calculate_task_score) with the configuration *)
(* of utils/config.py.                                                     *)
(*                                                                         *)
(* Time is counted in ticks, TicksPerDay ticks to a day; a tick is the     *)
(* smallest step by which two samples of datetime.now() differ.  Scores    *)
(* are exact rationals, held as integers in units of 1/Scale score point.  *)
(***************************************************************************)
EXTENDS Integers, FiniteSets, Sequences, TLC

\* ------------------------------------------------------------------ bounds
TicksPerDay == 2
MaxNow == 1
MaxRows == 3
MaxCallers == 2
MaxStored == 2

\* ----------------------------------------------------------- configuration
MAX_TASK_SCORE == 100
MIN_TASK_SCORE == 0
DEFAULT_FOLLOWUP_DAYS == 3
\* TIER_WEIGHTS = {'A': 3, 'B': 2, 'C': 1}
TIER_WEIGHTS == [A |-> 3, B |-> 2, C |-> 1]
\* Faulty variant: weights that sum to 1.1
TASK_SCORE_WEIGHTS_over_one ==
    [revenue |-> 20, tier |-> 20, days_open |-> 50, next_followup |-> 20]
\* TASK_SCORE_WEIGHTS, in hundredths (0.2 is 20, 0.4 is 40)
TASK_SCORE_WEIGHTS == [revenue |-> 20, tier |-> 20, days_open |-> 40, next_followup |-> 20]
\* the literals of calculate_task_score
max_reasonable_revenue == 50000
StalenessCapDays == 10
FollowupWindowDays == 7

\* One score point is Scale units: every contribution is then an integer
\* (sevenths of the follow-up allotment, thirds of the tier allotment,
\* 1/2500 point per currency unit of revenue).
Scale == 7 * 3 * 2500

\* MAX_TASK_SCORE * TASK_SCORE_WEIGHTS[f], in units
Allot(f) == (Scale * MAX_TASK_SCORE * TASK_SCORE_WEIGHTS[f]) \div 100

\* ------------------------------------------------------------ float values
\* A Python float: finite (k = "fin", value v), NaN, +inf or -inf.
Fin(v) == [k |-> "fin", v |-> v]
NaN == [k |-> "nan", v |-> 0]
PInf == [k |-> "pinf", v |-> 0]
NInf == [k |-> "ninf", v |-> 0]

\* a < b on floats: every comparison with NaN is false
Lt(a, b) ==
    CASE a.k = "nan" \/ b.k = "nan" -> FALSE
      [] a.k = "ninf" -> b.k # "ninf"
      [] a.k = "pinf" -> FALSE
      [] b.k = "ninf" -> FALSE
      [] b.k = "pinf" -> TRUE
      [] OTHER -> a.v < b.v

\* Python's min(a, b) and max(a, b): the first argument unless the second
\* is strictly smaller (larger)
PyMin(a, b) == IF Lt(b, a) THEN b ELSE a
PyMax(a, b) == IF Lt(a, b) THEN b ELSE a

\* a + b on floats
FAdd(a, b) ==
    CASE a.k = "nan" \/ b.k = "nan" -> NaN
      [] a.k = "fin" /\ b.k = "fin" -> Fin(a.v + b.v)
      [] a.k = "fin" -> b
      [] b.k = "fin" -> a
      [] a.k = b.k -> a
      [] OTHER -> NaN

\* a * c for a finite c > 0
FScale(a, c) == IF a.k = "fin" THEN Fin(a.v * c) ELSE a

\* --------------------------------------------------------------- field values
\* A date field: absent (missing key, None, "" or another falsy value), an
\* unparseable string, a
\* naive ISO string of instant t, a native datetime/date value of instant t,
\* or an ISO string with a UTC offset of instant t.
NoDate == [k |-> "none", t |-> 0]
BadDate == [k |-> "bad", t |-> 0]
StrDate(t) == [k |-> "str", t |-> t]
NativeDate(t) == [k |-> "native", t |-> t]
AwareDate(t) == [k |-> "aware", t |-> t]

\* A text field (status, customer_tier): absent (missing, None, "" or another
\* falsy value), a string, or a truthy value that is not a string.
NoText == [k |-> "none", s |-> ""]
Str(s) == [k |-> "str", s |-> s]
NonText == [k |-> "other", s |-> ""]

\* potential_revenue: absent (missing, None or 0), a number, a value float()
\* rejects, or a value float() turns into nan / inf / -inf.
NoRevenue == [k |-> "none", v |-> 0]
Revenue(v) == [k |-> "num", v |-> v]
BadRevenue == [k |-> "bad", v |-> 0]
NaNRevenue == [k |-> "nan", v |-> 0]
PInfRevenue == [k |-> "pinf", v |-> 0]
NInfRevenue == [k |-> "ninf", v |-> 0]

Days(d) == d * TicksPerDay

\* Faulty variant: the day count rounded up instead of down
DaysBetweenRoundedUp(a, b) == (a - b + TicksPerDay - 1) \div TicksPerDay

\* timedelta.days of (a - b): whole days, rounded towards minus infinity
DaysBetween(a, b) == (a - b) \div TicksPerDay

\* str.lower() and str.upper() on the strings of the model
Lower(s) ==
    CASE s = "WAITING" -> "waiting"
      [] s = "Waiting" -> "waiting"
      [] s = "OPEN" -> "open"
      [] s = "A" -> "a"
      [] s = "B" -> "b"
      [] s = "C" -> "c"
      [] s = "D" -> "d"
      [] OTHER -> s
Upper(s) ==
    CASE s = "a" -> "A"
      [] s = "b" -> "B"
      [] s = "c" -> "C"
      [] s = "d" -> "D"
      [] s = "waiting" -> "WAITING"
      [] s = "Waiting" -> "WAITING"
      [] s = "open" -> "OPEN"
      [] OTHER -> s

Max2(a, b) == IF a >= b THEN a ELSE b
Min2(a, b) == IF a <= b THEN a ELSE b

\* ------------------------------------------------------ calculate_task_score
\* parse_date(val) (date_only is never passed): None for a falsy value and for
\* whatever datetime.fromisoformat rejects, a ValueError for a string that is
\* no ISO date and a TypeError for a value that is not a string; an ISO string
\* with a UTC offset parses to an offset-aware datetime.
\* Faulty variant: a string that is no date parses to the instant 0
parse_date_lenient(val) ==
    CASE val.k \in {"str", "bad"} -> [ok |-> TRUE, aware |-> FALSE, t |-> val.t]
      [] val.k = "aware" -> [ok |-> TRUE, aware |-> TRUE, t |-> val.t]
      [] OTHER -> [ok |-> FALSE, aware |-> FALSE, t |-> 0]

parse_date(val) ==
    CASE val.k = "str" -> [ok |-> TRUE, aware |-> FALSE, t |-> val.t]
      [] val.k = "aware" -> [ok |-> TRUE, aware |-> TRUE, t |-> val.t]
      [] OTHER -> [ok |-> FALSE, aware |-> FALSE, t |-> 0]

\* now - d, d - now and d > now raise TypeError when d is offset-aware
\* (now = datetime.datetime.now() is naive)
MixesAwareAndNaive(d) == d.ok /\ d.aware

\* Faulty variant: a days_since_last_action key of the task is taken as given
days_since_last_precomputed(task, now) ==
    LET last_action == parse_date(task.last_action_date)
        created_at == parse_date(task.created_at)
    IN  IF "days_since_last_action" \in DOMAIN task THEN task.days_since_last_action
        ELSE IF last_action.ok THEN DaysBetween(now, last_action.t)
        ELSE IF created_at.ok THEN DaysBetween(now, created_at.t)
        ELSE 0

\* Faulty variant: created_at is read first, last_action_date as the fallback
days_since_last_from_created(task, now) ==
    LET last_action == parse_date(task.last_action_date)
        created_at == parse_date(task.created_at)
    IN  IF created_at.ok THEN DaysBetween(now, created_at.t)
        ELSE IF last_action.ok THEN DaysBetween(now, last_action.t)
        ELSE 0

\* days_since_last before the floor at 0
days_since_last(task, now) ==
    LET last_action == parse_date(task.last_action_date)
        created_at == parse_date(task.created_at)
    IN  IF last_action.ok THEN DaysBetween(now, last_action.t)
        ELSE IF created_at.ok THEN DaysBetween(now, created_at.t)
        ELSE 0

\* Faulty variant: the staleness is not capped at StalenessCapDays
last_action_score_uncapped(task, now) ==
    (Max2(0, days_since_last(task, now)) * Allot("days_open")) \div StalenessCapDays

last_action_score(task, now) ==
    LET floored == Max2(0, days_since_last(task, now))
    IN  (Min2(floored, StalenessCapDays) * Allot("days_open")) \div StalenessCapDays

\* Faulty variant: a task without a follow-up date counts as due today
days_until_followup_default_today(task, now) ==
    LET next_followup == parse_date(task.next_followup_date)
    IN  IF next_followup.ok THEN DaysBetween(next_followup.t, now)
        ELSE 0

days_until_followup(task, now) ==
    LET next_followup == parse_date(task.next_followup_date)
    IN  IF next_followup.ok THEN DaysBetween(next_followup.t, now)
        ELSE DEFAULT_FOLLOWUP_DAYS

\* Faulty variant: a follow-up that was missed no longer counts
followup_score_overdue_dropped(task, now) ==
    LET d == days_until_followup(task, now)
        full == Allot("next_followup")
    IN  IF d < 0 THEN 0
        ELSE Max2(0, full - Min2(d, FollowupWindowDays) * (full \div FollowupWindowDays))

\* Faulty variant: an overdue follow-up goes through the linear formula
followup_score_without_overdue(task, now) ==
    LET d == days_until_followup(task, now)
        full == Allot("next_followup")
    IN  Max2(0, full - Min2(d, FollowupWindowDays) * (full \div FollowupWindowDays))

followup_score(task, now) ==
    LET d == days_until_followup(task, now)
        full == Allot("next_followup")
    IN  IF d < 0 THEN full
        ELSE Max2(0, full - Min2(d, FollowupWindowDays) * (full \div FollowupWindowDays))

\* max(TIER_WEIGHTS.values())
MaxTierWeight ==
    CHOOSE w \in {TIER_WEIGHTS[x] : x \in DOMAIN TIER_WEIGHTS} :
        \A y \in DOMAIN TIER_WEIGHTS : TIER_WEIGHTS[y] <= w

\* Faulty variant: every known tier gets the highest weight
tier_weight_flat(task) ==
    IF Upper(task.customer_tier.s) \in DOMAIN TIER_WEIGHTS THEN MaxTierWeight ELSE 0

\* Faulty variant: the tier is looked up as written, without upper()
tier_weight_as_written(task) ==
    LET tier == task.customer_tier.s
    IN  IF tier \in DOMAIN TIER_WEIGHTS THEN TIER_WEIGHTS[tier] ELSE 0

\* TIER_WEIGHTS.get((task.get("customer_tier") or "").upper(), 0)
tier_weight(task) ==
    LET tier == Upper(task.customer_tier.s)
    IN  IF tier \in DOMAIN TIER_WEIGHTS THEN TIER_WEIGHTS[tier] ELSE 0

\* Faulty variant: the weight is taken as a share of the sum of the weights
tier_score_over_sum(task) ==
    (tier_weight(task) * Allot("tier"))
        \div (TIER_WEIGHTS["A"] + TIER_WEIGHTS["B"] + TIER_WEIGHTS["C"])

tier_score(task) == (tier_weight(task) * Allot("tier")) \div MaxTierWeight

\* float(task.get("potential_revenue") or 0), 0 when float() raises
revenue(task) ==
    LET r == task.potential_revenue
    IN  CASE r.k = "num" -> Fin(r.v)
          [] r.k = "nan" -> NaN
          [] r.k = "pinf" -> PInf
          [] r.k = "ninf" -> NInf
          [] OTHER -> Fin(0)

\* Faulty variant: the normalised revenue is not capped at 1.0
revenue_uncapped(task) == revenue(task)

\* min(revenue / max_reasonable_revenue, 1.0), in currency units
revenue_normalized(task) == PyMin(revenue(task), Fin(max_reasonable_revenue))

revenue_score(task) ==
    FScale(revenue_normalized(task), Allot("revenue") \div max_reasonable_revenue)

\* Faulty variant: the status is compared without .lower()
waiting_override_case_sensitive(task, now) ==
    LET next_followup == parse_date(task.next_followup_date)
    IN  task.status.s = "waiting" /\ next_followup.ok /\ next_followup.t > now

\* status == "waiting" and next_followup and next_followup > now
waiting_override(task, now) ==
    LET status == Lower(task.status.s)
        next_followup == parse_date(task.next_followup_date)
    IN  status = "waiting" /\ next_followup.ok /\ next_followup.t > now

\* Faulty variant: the follow-up contribution is left out of the sum
total_without_followup(task, now) ==
    FAdd(Fin(last_action_score(task, now) + tier_score(task)), revenue_score(task))

total(task, now) ==
    FAdd(Fin(last_action_score(task, now) + followup_score(task, now) + tier_score(task)),
         revenue_score(task))

\* Faulty variant: the total is returned without the clamp
clamp_skipped(x) == x

\* float(max(MIN_TASK_SCORE, min(MAX_TASK_SCORE, total)))
clamp(x) == PyMax(Fin(Scale * MIN_TASK_SCORE), PyMin(Fin(Scale * MAX_TASK_SCORE), x))

\* Faulty variant: the fields are read with task[...], a missing key raises
raised_exception_on_missing_key(task) ==
    LET last_action == parse_date(task.last_action_date)
        created_at == parse_date(task.created_at)
        next_followup == parse_date(task.next_followup_date)
    IN  CASE task.last_action_date.k = "none" -> "KeyError"
          [] MixesAwareAndNaive(last_action) -> "TypeError"
          [] ~last_action.ok /\ MixesAwareAndNaive(created_at) -> "TypeError"
          [] MixesAwareAndNaive(next_followup) -> "TypeError"
          [] task.customer_tier.k = "other" -> "AttributeError"
          [] task.status.k = "other" -> "AttributeError"
          [] OTHER -> ""

\* The exception the call ends with, "" when it returns: the statements that
\* can raise outside a try block, in the order the code reaches them.
raised_exception(task) ==
    LET last_action == parse_date(task.last_action_date)
        created_at == parse_date(task.created_at)
        next_followup == parse_date(task.next_followup_date)
    IN  CASE MixesAwareAndNaive(last_action) -> "TypeError"
          [] ~last_action.ok /\ MixesAwareAndNaive(created_at) -> "TypeError"
          [] MixesAwareAndNaive(next_followup) -> "TypeError"
          [] task.customer_tier.k = "other" -> "AttributeError"
          [] task.status.k = "other" -> "AttributeError"
          [] OTHER -> ""

\* The outcome of calculate_task_score(task) called at instant now
calculate_task_score(task, now) ==
    LET exc == raised_exception(task)
    IN  IF exc # "" THEN [raised |-> TRUE, exc |-> exc, score |-> 0]
        ELSE IF waiting_override(task, now)
             THEN [raised |-> FALSE, exc |-> "", score |-> Scale * MIN_TASK_SCORE]
        ELSE [raised |-> FALSE, exc |-> "", score |-> clamp(total(task, now)).v]

\* --------------------------------------------------------------- snapshots
Statuses == {NoText, Str("open"), Str("waiting"), Str("WAITING"), NonText}
Tiers == {NoText, Str("A"), Str("a"), Str("B"), Str("D"), NonText}
Revenues ==
    {NoRevenue, BadRevenue, NaNRevenue, Revenue(-1000000), Revenue(25000),
     Revenue(50000), Revenue(1000000)}
LastActionDates ==
    {NoDate, StrDate(Days(-20)), StrDate(Days(-10) + 1), NativeDate(Days(-10)),
     AwareDate(Days(-10))}
CreatedDates == {NoDate, StrDate(Days(-7))}
FollowupDates ==
    {NoDate, BadDate, StrDate(0), StrDate(1), StrDate(Days(3) + 1), NativeDate(Days(5))}

Tasks ==
    [status : Statuses, customer_tier : Tiers, potential_revenue : Revenues,
     last_action_date : LastActionDates, created_at : CreatedDates,
     next_followup_date : FollowupDates]

\* ------------------------------------------------------------------- state
VARIABLES
    task,    \* the task snapshot handed to the scorer
    now,     \* the clock, in ticks
    result,  \* the outcome of the latest call on the snapshot
    prev,    \* the outcome of the call before it
    rows,        \* what get_open_tasks() returned to the Tasks page, in order
    open_tasks,  \* the Tasks page's list of prioritized tasks
    pc,          \* where the rendering of the Tasks page stands
    calls,       \* the invocations of the scorer that run side by side
    frames,      \* the local variables of each invocation
    store,        \* the rows of the tasks table, in the order of insertion
    quick_tasks,  \* what get_quick_tasks() returned to the Tasks page
    message,      \* the message the Tasks page shows after a click
    last,         \* the latest call of add_task or mark_task_done: what it
                  \* returned and whether the database answered
    marked,       \* the ids mark_task_done has returned True for
    cache,        \* the entry st.cache_data holds for get_task_summary
    summary       \* what the latest call of get_task_summary returned, and
                  \* what get_open_tasks() returned at the time of that call

store_vars == <<store, quick_tasks, message, last, marked, cache, summary>>
vars == <<task, now, result, prev, rows, open_tasks, pc, calls, frames, store_vars>>

NoMessage == [kind |-> "none", id |-> 0]
NoServiceCall == [op |-> "none", id |-> 0, ret |-> FALSE, db_up |-> TRUE]
NoCache == [valid |-> FALSE, total_open_tasks |-> 0]
NoSummary == [called |-> FALSE, total_open_tasks |-> 0, open_at_call |-> 0]
\* Nothing of the store, the page's messages or the dashboard is in play
StoreIdle ==
    /\ store = <<>>
    /\ quick_tasks = <<>>
    /\ message = NoMessage
    /\ last = NoServiceCall
    /\ marked = {}
    /\ cache = NoCache
    /\ summary = NoSummary

NoCall == [done |-> FALSE, at |-> 0, raised |-> FALSE, exc |-> "", score |-> 0]

Init ==
    /\ task \in Tasks
    /\ now = 0
    /\ result = NoCall
    /\ prev = NoCall
    /\ rows = <<>>
    /\ open_tasks = <<>>
    /\ pc = "idle"
    /\ calls = <<>>
    /\ frames = <<>>
    /\ StoreIdle

\* Faulty variant: the scorer keeps the outcome of its first call on a task
\* and answers later calls from it
Score_memoized ==
    /\ LET out == calculate_task_score(task, now)
       IN  result' = IF result.done THEN [result EXCEPT !.at = now]
                     ELSE [done |-> TRUE, at |-> now, raised |-> out.raised,
                           exc |-> out.exc, score |-> out.score]
    /\ prev' = result
    /\ UNCHANGED <<task, now, rows, open_tasks, pc, calls, frames, store_vars>>

\* one call of calculate_task_score(task): samples now, returns or raises
Score ==
    /\ LET out == calculate_task_score(task, now)
       IN  result' = [done |-> TRUE, at |-> now, raised |-> out.raised,
                      exc |-> out.exc, score |-> out.score]
    /\ prev' = result
    /\ UNCHANGED <<task, now, rows, open_tasks, pc, calls, frames, store_vars>>

\* time passes
Tick ==
    /\ now < MaxNow
    /\ now' = now + 1
    /\ UNCHANGED <<task, result, prev, rows, open_tasks, pc, calls, frames, store_vars>>

Next == Score \/ Tick

Spec == Init /\ [][Next]_vars

\* ------------------------------------------- the Tasks page's worklist
\* The rows get_open_tasks() hands to the page: the columns the page and
\* the scorer read (id, type, the scored fields), ids in the order of the
\* query's result.
PageSnapshot(status, tier, last_action, next_followup) ==
    [status |-> Str(status), customer_tier |-> Str(tier),
     potential_revenue |-> NoRevenue, last_action_date |-> last_action,
     created_at |-> NoDate, next_followup_date |-> next_followup]
PageSnapshots ==
    {PageSnapshot("open", "A", NoDate, NoDate),
     PageSnapshot("open", "B", NoDate, NoDate),
     PageSnapshot("waiting", "B", NoDate, StrDate(1)),
     PageSnapshot("open", "A", AwareDate(Days(-10)), NoDate)}
RowKinds ==
    {[type |-> "normal", snap |-> x] : x \in PageSnapshots}
    \cup {[type |-> "quick", snap |-> PageSnapshot("open", "A", NoDate, NoDate)]}
RowsOfLength(n) ==
    {[i \in 1..n |-> [id |-> i, type |-> f[i].type, snap |-> f[i].snap]] :
        f \in [1..n -> RowKinds]}
FetchedRows == UNION {RowsOfLength(n) : n \in 0..MaxRows}

PageInit ==
    /\ task = PageSnapshot("open", "A", NoDate, NoDate)
    /\ now = 0
    /\ result = NoCall
    /\ prev = NoCall
    /\ rows \in FetchedRows
    /\ open_tasks = <<>>
    /\ pc = "render"
    /\ calls = <<>>
    /\ frames = <<>>
    /\ StoreIdle

NotQuick(t) == t.type # "quick"
Unscored(t) == [id |-> t.id, type |-> t.type, snap |-> t.snap, scored |-> FALSE, score |-> 0]

\* open_tasks = [t for t in get_open_tasks() if t.get('type') != 'quick']
FetchOpenTasks ==
    /\ pc = "render"
    /\ LET kept == SelectSeq(rows, NotQuick)
       IN  /\ open_tasks' = [i \in 1..Len(kept) |-> Unscored(kept[i])]
           /\ pc' = IF Len(kept) = 0 THEN "empty" ELSE "scoring"
    /\ UNCHANGED <<task, now, result, prev, rows, calls, frames, store_vars>>

\* one pass of `for t in open_tasks: t['score'] = calculate_task_score(t)`;
\* an exception of the scorer ends the rendering
ScoreNext ==
    /\ pc = "scoring"
    /\ LET i == CHOOSE k \in 1..Len(open_tasks) :
                    /\ ~open_tasks[k].scored
                    /\ \A j \in 1..(k - 1) : open_tasks[j].scored
           out == calculate_task_score(open_tasks[i].snap, now)
       IN  IF out.raised
           THEN pc' = "failed" /\ UNCHANGED open_tasks
           ELSE /\ open_tasks' = [open_tasks EXCEPT ![i].scored = TRUE, ![i].score = out.score]
                /\ pc' = IF i = Len(open_tasks) THEN "sorting" ELSE "scoring"
    /\ UNCHANGED <<task, now, result, prev, rows, calls, frames, store_vars>>

\* Faulty variant: equal scores come out in the reverse of the list's order
\* (an ascending sort that is then reversed)
sort_position_ties_reversed(l, i) ==
    Cardinality({j \in 1..Len(l) : l[j].score > l[i].score})
        + Cardinality({j \in i..Len(l) : l[j].score = l[i].score})

\* The place list.sort(key=score, reverse=True) gives the element at index i:
\* after every element of higher score and, the sort being stable, after the
\* elements of equal score that stand before it
sort_position(l, i) ==
    Cardinality({j \in 1..Len(l) : l[j].score > l[i].score})
        + Cardinality({j \in 1..i : l[j].score = l[i].score})

\* open_tasks.sort(key=lambda x: x['score'], reverse=True)
sort_by_score_reverse(l) ==
    [k \in 1..Len(l) |-> l[CHOOSE i \in 1..Len(l) : sort_position(l, i) = k]]

SortByScore ==
    /\ pc = "sorting"
    /\ open_tasks' = sort_by_score_reverse(open_tasks)
    /\ pc' = "shown"
    /\ UNCHANGED <<task, now, result, prev, rows, calls, frames, store_vars>>

PageNext == FetchOpenTasks \/ ScoreNext \/ SortByScore \/ Tick

PageSpec == PageInit /\ [][PageNext]_vars

\* ------------------------------------- invocations that run side by side
\* Several request contexts call calculate_task_score, each on its own task
\* snapshot; the interpreter switches between them between statements. Every
\* invocation has its own frame of local variables.
Callers == 1..MaxCallers
ConcSnapshots ==
    {PageSnapshot("open", "A", StrDate(Days(-10) + 1), NoDate),
     PageSnapshot("waiting", "B", NoDate, StrDate(1)),
     PageSnapshot("open", "A", NoDate, AwareDate(Days(5)))}
NoOutcome == [raised |-> FALSE, exc |-> "", score |-> 0]
NewFrame ==
    [now |-> 0, last_action_score |-> 0, followup_score |-> 0, tier_score |-> 0,
     revenue_score |-> Fin(0)]

\* Faulty variant: the local variables are module-level names, one set for
\* every invocation
frame_shared(c) == 1

\* The frame that holds the local variables of invocation c
frame(c) == c

ConcInit ==
    /\ task = PageSnapshot("open", "A", NoDate, NoDate)
    /\ now = 0
    /\ result = NoCall
    /\ prev = NoCall
    /\ rows = <<>>
    /\ open_tasks = <<>>
    /\ pc = "idle"
    /\ calls \in [Callers -> {[task |-> t, at |-> 0, pc |-> "called", out |-> NoOutcome] :
                                  t \in ConcSnapshots}]
    /\ frames = [c \in Callers |-> NewFrame]
    /\ StoreIdle

ConcFrame == UNCHANGED <<task, now, result, prev, rows, open_tasks, pc, store_vars>>

Raise(c, exc) ==
    /\ calls' = [calls EXCEPT ![c].pc = "returned",
                              ![c].out = [raised |-> TRUE, exc |-> exc, score |-> 0]]
    /\ UNCHANGED frames

\* now = datetime.datetime.now()
SampleNow(c) ==
    /\ calls[c].pc = "called"
    /\ frames' = [frames EXCEPT ![frame(c)].now = now]
    /\ calls' = [calls EXCEPT ![c].pc = "recency", ![c].at = now]
    /\ ConcFrame

\* the statements that compute last_action_score
StepRecency(c) ==
    /\ calls[c].pc = "recency"
    /\ LET t == calls[c].task
           last_action == parse_date(t.last_action_date)
       IN  IF \/ MixesAwareAndNaive(last_action)
              \/ ~last_action.ok /\ MixesAwareAndNaive(parse_date(t.created_at))
           THEN Raise(c, "TypeError")
           ELSE /\ frames' = [frames EXCEPT ![frame(c)].last_action_score =
                                  last_action_score(t, frames[frame(c)].now)]
                /\ calls' = [calls EXCEPT ![c].pc = "followup"]
    /\ ConcFrame

\* the statements that compute followup_score
StepFollowup(c) ==
    /\ calls[c].pc = "followup"
    /\ LET t == calls[c].task
       IN  IF MixesAwareAndNaive(parse_date(t.next_followup_date))
           THEN Raise(c, "TypeError")
           ELSE /\ frames' = [frames EXCEPT ![frame(c)].followup_score =
                                  followup_score(t, frames[frame(c)].now)]
                /\ calls' = [calls EXCEPT ![c].pc = "tier"]
    /\ ConcFrame

\* the statements that compute tier_score
StepTier(c) ==
    /\ calls[c].pc = "tier"
    /\ LET t == calls[c].task
       IN  IF t.customer_tier.k = "other"
           THEN Raise(c, "AttributeError")
           ELSE /\ frames' = [frames EXCEPT ![frame(c)].tier_score = tier_score(t)]
                /\ calls' = [calls EXCEPT ![c].pc = "revenue"]
    /\ ConcFrame

\* the statements that compute revenue_score
StepRevenue(c) ==
    /\ calls[c].pc = "revenue"
    /\ frames' = [frames EXCEPT ![frame(c)].revenue_score = revenue_score(calls[c].task)]
    /\ calls' = [calls EXCEPT ![c].pc = "status"]
    /\ ConcFrame

\* the status check, the sum of the four locals and the clamp
StepReturn(c) ==
    /\ calls[c].pc = "status"
    /\ LET t == calls[c].task
           f == frames[frame(c)]
           sum == FAdd(Fin(f.last_action_score + f.followup_score + f.tier_score),
                       f.revenue_score)
       IN  IF t.status.k = "other"
           THEN Raise(c, "AttributeError")
           ELSE /\ calls' = [calls EXCEPT
                        ![c].pc = "returned",
                        ![c].out = [raised |-> FALSE, exc |-> "",
                                    score |-> IF waiting_override(t, f.now)
                                              THEN Scale * MIN_TASK_SCORE
                                              ELSE clamp(sum).v]]
                /\ UNCHANGED frames
    /\ ConcFrame

ConcTick ==
    /\ now < MaxNow
    /\ now' = now + 1
    /\ UNCHANGED <<task, result, prev, rows, open_tasks, pc, calls, frames, store_vars>>

ConcNext ==
    \/ \E c \in Callers :
           \/ SampleNow(c) \/ StepRecency(c) \/ StepFollowup(c)
           \/ StepTier(c) \/ StepRevenue(c) \/ StepReturn(c)
    \/ ConcTick

ConcSpec == ConcInit /\ [][ConcNext]_vars

\* ------------------------------------------------- the tasks table
\* A row of the tasks table: its id (serial), its type, and the columns the
\* scorer reads; the status column is 'open', 'done' or NULL.
Row(id, status, type) ==
    [id |-> id, type |-> type,
     snap |-> [status |-> status, customer_tier |-> Str("A"),
               potential_revenue |-> NoRevenue, last_action_date |-> NoDate,
               created_at |-> NoDate, next_followup_date |-> NoDate]]
\* the dicts add_task is called with: with and without a status key
NewTasks == [status : {Str("open"), NoText}, type : {"quick", "normal"}]
Ids(l) == {l[i].id : i \in 1..Len(l)}

\* status != 'done' in SQL: true of no row whose status is NULL
NotDone(r) == r.snap.status.k = "str" /\ r.snap.status.s # "done"
IsQuickNotDone(r) == r.type = "quick" /\ NotDone(r)

\* Faulty variant: the query has no WHERE clause
get_open_tasks_unfiltered(db) == db

\* SELECT * FROM tasks WHERE status != 'done' ORDER BY ...: the rows have
\* no follow-up date, the order is that of created_at, which is that of the ids
get_open_tasks(db) == SelectSeq(db, NotDone)

\* SELECT * FROM tasks WHERE type = 'quick' AND status != 'done'
get_quick_tasks(db) == SelectSeq(db, IsQuickNotDone)

\* Faulty variant: True whenever the UPDATE ran without an error
mark_task_done_any_rowcount(db, task_id) ==
    [db |-> [i \in 1..Len(db) |->
                IF db[i].id = task_id THEN [db[i] EXCEPT !.snap.status = Str("done")]
                ELSE db[i]],
     ret |-> TRUE]

\* UPDATE tasks SET status = 'done' WHERE id = task_id, committed;
\* returns cursor.rowcount > 0
mark_task_done(db, task_id) ==
    [db |-> [i \in 1..Len(db) |->
                IF db[i].id = task_id THEN [db[i] EXCEPT !.snap.status = Str("done")]
                ELSE db[i]],
     ret |-> \E i \in 1..Len(db) : db[i].id = task_id]

\* Faulty variant: the failure is reported although the insert was committed
add_task_reports_failure(db, data) ==
    [db |-> Append(db, Row(Len(db) + 1, data.status, data.type)), ret |-> FALSE]

\* INSERT INTO tasks (...) VALUES (...), committed; returns True
add_task(db, data) ==
    [db |-> Append(db, Row(Len(db) + 1, data.status, data.type)), ret |-> TRUE]

StoreInit ==
    /\ task = PageSnapshot("open", "A", NoDate, NoDate)
    /\ now = 0
    /\ result = NoCall
    /\ prev = NoCall
    /\ rows = <<>>
    /\ open_tasks = <<>>
    /\ pc = "quick"
    /\ calls = <<>>
    /\ frames = <<>>
    /\ StoreIdle

ScorerIdle == UNCHANGED <<task, now, result, prev, calls, frames>>

\* a session calls add_task(data); db_up is false when the connection or
\* the statement fails, and then nothing is committed
AddTask ==
    /\ Len(store) < MaxStored
    /\ \E data \in NewTasks, db_up \in BOOLEAN :
           LET r == add_task(store, data)
           IN  IF db_up
               THEN /\ store' = r.db
                    /\ last' = [op |-> "add_task", id |-> Len(store) + 1, ret |-> r.ret, db_up |-> TRUE]
               ELSE /\ store' = store
                    /\ last' = [op |-> "add_task", id |-> 0, ret |-> FALSE, db_up |-> FALSE]
    /\ UNCHANGED <<rows, open_tasks, pc, quick_tasks, message, marked, cache, summary>>
    /\ ScorerIdle

\* a session calls mark_task_done(task_id)
MarkTaskDone ==
    /\ \E task_id \in 1..(MaxStored + 1), db_up \in BOOLEAN :
           LET r == mark_task_done(store, task_id)
           IN  IF db_up
               THEN /\ store' = r.db
                    /\ last' = [op |-> "mark_task_done", id |-> task_id, ret |-> r.ret, db_up |-> TRUE]
                    /\ marked' = IF r.ret THEN marked \cup {task_id} ELSE marked
               ELSE /\ store' = store
                    /\ last' = [op |-> "mark_task_done", id |-> task_id, ret |-> FALSE, db_up |-> FALSE]
                    /\ marked' = marked
    /\ UNCHANGED <<rows, open_tasks, pc, quick_tasks, message, cache, summary>>
    /\ ScorerIdle

\* Tasks.py line 28: quick_tasks = get_quick_tasks(), [] when the query fails
RenderQuick ==
    /\ pc = "quick"
    /\ \E db_up \in BOOLEAN :
           quick_tasks' = IF db_up THEN get_quick_tasks(store) ELSE <<>>
    /\ message' = NoMessage
    /\ rows' = <<>>
    /\ open_tasks' = <<>>
    /\ pc' = "open"
    /\ UNCHANGED <<store, last, marked, cache, summary>>
    /\ ScorerIdle

\* Tasks.py line 70: the call get_open_tasks(), [] when the query fails
RenderOpen ==
    /\ pc = "open"
    /\ \E db_up \in BOOLEAN :
           rows' = IF db_up THEN get_open_tasks(store) ELSE <<>>
    /\ pc' = "render"
    /\ UNCHANGED <<open_tasks, store_vars>>
    /\ ScorerIdle

\* the checkbox of a quick task or the Complete button of a prioritized
\* task: mark_task_done(task['id']), st.success(...), st.rerun()
CompleteClicked ==
    /\ pc \in {"shown", "empty"}
    /\ \E task_id \in Ids(quick_tasks) \cup Ids(open_tasks), db_up \in BOOLEAN :
           LET r == mark_task_done(store, task_id)
           IN  /\ store' = IF db_up THEN r.db ELSE store
               /\ last' = [op |-> "mark_task_done", id |-> task_id, ret |-> db_up /\ r.ret,
                           db_up |-> db_up]
               /\ marked' = IF db_up /\ r.ret THEN marked \cup {task_id} ELSE marked
               /\ message' = [kind |-> "success", id |-> task_id]
    /\ pc' = "quick"
    /\ UNCHANGED <<rows, open_tasks, quick_tasks, cache, summary>>
    /\ ScorerIdle

\* get_task_summary() behind st.cache_data(ttl=300): the cached entry while
\* there is one, else len(get_open_tasks()), which is then cached
GetTaskSummary ==
    /\ IF cache.valid
       THEN \* the body does not run; open_at_call is what the table holds
            /\ summary' = [called |-> TRUE,
                           total_open_tasks |-> cache.total_open_tasks,
                           open_at_call |-> Len(get_open_tasks(store))]
            /\ cache' = cache
       ELSE \E db_up \in BOOLEAN :
               LET n == IF db_up THEN Len(get_open_tasks(store)) ELSE 0
               IN  /\ summary' = [called |-> TRUE, total_open_tasks |-> n,
                                  open_at_call |-> n]
                   /\ cache' = [valid |-> TRUE, total_open_tasks |-> n]
    /\ UNCHANGED <<rows, open_tasks, pc, store, quick_tasks, message, last, marked>>
    /\ ScorerIdle

\* 300 seconds after the entry was stored it is dropped
CacheExpires ==
    /\ cache.valid
    /\ cache' = NoCache
    /\ UNCHANGED <<rows, open_tasks, pc, store, quick_tasks, message, last, marked, summary>>
    /\ ScorerIdle

\* The Tasks page of one session renders and is clicked on while any session
\* adds tasks and marks tasks done
StoreNext ==
    \/ AddTask \/ MarkTaskDone
    \/ RenderQuick \/ RenderOpen \/ FetchOpenTasks \/ ScoreNext \/ SortByScore
    \/ CompleteClicked

StoreSpec == StoreInit /\ [][StoreNext]_vars

\* The dashboard asks for the task summary while any session adds tasks and
\* marks tasks done
DashInit ==
    /\ task = PageSnapshot("open", "A", NoDate, NoDate)
    /\ now = 0
    /\ result = NoCall
    /\ prev = NoCall
    /\ rows = <<>>
    /\ open_tasks = <<>>
    /\ pc = "idle"
    /\ calls = <<>>
    /\ frames = <<>>
    /\ StoreIdle

DashNext == AddTask \/ MarkTaskDone \/ GetTaskSummary \/ CacheExpires

DashSpec == DashInit /\ [][DashNext]_vars

\* ------------------------------------------------------------------ claims
MinUnits == Scale * MIN_TASK_SCORE
MaxUnits == Scale * MAX_TASK_SCORE
WaitingSpellings == {"waiting", "WAITING", "Waiting"}
Returned == result.done /\ ~result.raised
\* The first call on the snapshot has just been answered: the instant at which
\* the claims that compare it with the scores of varied snapshots are checked
\* (a call reads nothing but the snapshot and the clock)
JustScored == result.done /\ result.at = now /\ ~prev.done

\* The snapshot with one field replaced
WithTier(t, x) == [t EXCEPT !.customer_tier = x]
WithRevenue(t, x) == [t EXCEPT !.potential_revenue = x]
WithLastAction(t, x) == [t EXCEPT !.last_action_date = x]
WithCreated(t, x) == [t EXCEPT !.created_at = x]
WithFollowup(t, x) == [t EXCEPT !.next_followup_date = x]

\* The fields are missing or of the kinds C1 lists: text fields absent or
\* strings, date fields absent, unparseable or plain date strings, revenue of
\* any kind.
C1_ListedInput(t) ==
    /\ t.status.k \in {"none", "str"}
    /\ t.customer_tier.k \in {"none", "str"}
    /\ t.last_action_date.k \in {"none", "bad", "str"}
    /\ t.created_at.k \in {"none", "bad", "str"}
    /\ t.next_followup_date.k \in {"none", "bad", "str"}

\* C1: every score calculate_task_score returns lies in
\* [MIN_TASK_SCORE, MAX_TASK_SCORE], and for a task whose fields are missing,
\* unparseable dates, any revenue (non-numeric, negative, huge, NaN), any tier
\* or status string, the call does return.
C1_ScoreInRange ==
    result.done =>
        /\ C1_ListedInput(task) => ~result.raised
        /\ ~result.raised => MinUnits <= result.score /\ result.score <= MaxUnits

\* a malformed task (bad date, unknown tier, hugely negative revenue) scored
\* at the lower bound
C1_Witness ==
    /\ Returned
    /\ task.potential_revenue = Revenue(-1000000)
    /\ task.next_followup_date = BadDate
    /\ task.customer_tier = Str("D")
    /\ result.score = MinUnits

\* The snapshot with every malformed field of C2's list made absent
C2_Absent(t) ==
    [status |-> IF t.status.k = "other" THEN NoText ELSE t.status,
     customer_tier |-> IF t.customer_tier.k = "other" THEN NoText ELSE t.customer_tier,
     potential_revenue |->
         IF t.potential_revenue.k = "bad" THEN NoRevenue ELSE t.potential_revenue,
     last_action_date |->
         IF t.last_action_date.k \in {"bad", "native", "aware"} THEN NoDate
         ELSE t.last_action_date,
     created_at |->
         IF t.created_at.k \in {"bad", "native", "aware"} THEN NoDate ELSE t.created_at,
     next_followup_date |->
         IF t.next_followup_date.k \in {"bad", "native", "aware"} THEN NoDate
         ELSE t.next_followup_date]

\* C2: calculate_task_score never raises, and returns what it returns for
\* the task with its malformed fields absent.
C2_NeverRaises ==
    result.done =>
        /\ ~result.raised
        /\ result.score = calculate_task_score(C2_Absent(task), result.at).score

\* C3: a call that returns for a task whose status is "waiting" in any case
\* and whose next_followup_date parses and is strictly later than now returns
\* MIN_TASK_SCORE, whatever the other fields.
C3_WaitingFutureScoresMin ==
    (/\ Returned
     /\ task.status.k = "str" /\ task.status.s \in WaitingSpellings
     /\ task.next_followup_date.k \in {"str", "aware"}
     /\ task.next_followup_date.t > result.at)
        => result.score = MinUnits

\* tier A, revenue 1,000,000, last action 20 days ago, status WAITING and a
\* follow-up more than 3 days ahead: scored 0
C3_Witness ==
    /\ Returned
    /\ task.status = Str("WAITING")
    /\ task.customer_tier = Str("A")
    /\ task.potential_revenue = Revenue(1000000)
    /\ task.last_action_date = StrDate(Days(-20))
    /\ task.next_followup_date = StrDate(Days(3) + 1)
    /\ result.score = MinUnits

\* The snapshot with its native date/time values written as date strings
C4_AsString(d) == IF d.k = "native" THEN StrDate(d.t) ELSE d
C4_Stringified(t) ==
    [t EXCEPT !.last_action_date = C4_AsString(@),
              !.created_at = C4_AsString(@),
              !.next_followup_date = C4_AsString(@)]

\* C4: a date field given as a native date/time value yields the score of
\* the same instant given as a formatted string.
C4_NativeSameAsString ==
    result.done =>
        LET other == calculate_task_score(C4_Stringified(task), result.at)
        IN  result.raised = other.raised /\ result.score = other.score

\* The waiting override as C5 states it
C5_Override(t, n) ==
    /\ t.status.k = "str" /\ t.status.s \in WaitingSpellings
    /\ t.next_followup_date.k \in {"str", "aware"}
    /\ t.next_followup_date.t > n

\* C5: without the waiting override the returned score is the sum of the four
\* contributions clamped to [MIN_TASK_SCORE, MAX_TASK_SCORE] (a NaN sum, which
\* has no clamped value, is left out).
C5_SumClamped ==
    (Returned /\ ~C5_Override(task, result.at)) =>
        LET sum == FAdd(Fin(last_action_score(task, result.at)
                            + followup_score(task, result.at) + tier_score(task)),
                        revenue_score(task))
        IN  CASE sum.k = "nan" -> TRUE
              [] sum.k = "pinf" -> result.score = MaxUnits
              [] sum.k = "ninf" -> result.score = MinUnits
              [] OTHER -> result.score = Max2(MinUnits, Min2(MaxUnits, sum.v))

\* a waiting task whose follow-up is not in the future any more, with all four
\* contributions above zero and the sum below the maximum
C5_Witness ==
    /\ Returned
    /\ task.status = Str("waiting")
    /\ task.next_followup_date = StrDate(1) /\ result.at = 1
    /\ task.customer_tier = Str("B")
    /\ task.potential_revenue = Revenue(25000)
    /\ task.last_action_date = StrDate(Days(-10) + 1)
    /\ result.score = Allot("days_open") + Allot("next_followup")
                      + (2 * Allot("tier")) \div 3 + Allot("revenue") \div 2

\* The score with the tier field replaced; the snapshot's other fields and the
\* instant of the latest call are kept
C6_TierScore(x) == calculate_task_score(WithTier(task, x), result.at).score
C6_TiersReturn ==
    JustScored /\ ~calculate_task_score(WithTier(task, Str("A")), result.at).raised

\* potential_revenue is absent, non-numeric or a number >= 0 (+inf included)
C6_RevenueNotNegative ==
    \/ task.potential_revenue.k \in {"none", "bad", "pinf"}
    \/ task.potential_revenue.k = "num" /\ task.potential_revenue.v >= 0

\* C6 as stated: A > B > C > unknown or missing tier, strictly, for every
\* combination of the other fields (status and follow-up date included),
\* here for the tasks whose revenue is not negative.
C6_TierOrderStrictAlways ==
    (JustScored /\ ~result.raised /\ C6_RevenueNotNegative) =>
        /\ C6_TierScore(Str("A")) > C6_TierScore(Str("B"))
        /\ C6_TierScore(Str("B")) > C6_TierScore(Str("C"))
        /\ C6_TierScore(Str("C")) > C6_TierScore(Str("D"))
        /\ C6_TierScore(Str("C")) > C6_TierScore(NoText)

\* C6 as amended: A >= B >= C >= unknown or missing tier always, and strictly
\* when the waiting override does not apply and the revenue is not negative
\* and not NaN.
C6_TierOrder ==
    C6_TiersReturn =>
        LET a == C6_TierScore(Str("A"))
            b == C6_TierScore(Str("B"))
            c == C6_TierScore(Str("C"))
            d == C6_TierScore(Str("D"))
            none == C6_TierScore(NoText)
        IN  /\ a >= b /\ b >= c /\ c >= d /\ c >= none
            /\ (~C5_Override(task, result.at) /\ C6_RevenueNotNegative) =>
                  (a > b /\ b > c /\ c > d /\ c > none)

\* a tier-B task, not waiting, revenue 25,000, scored strictly between what
\* tier A and tier C would score
C6_Witness ==
    /\ Returned
    /\ task.customer_tier = Str("B")
    /\ task.status = Str("open")
    /\ task.potential_revenue = Revenue(25000)
    /\ C6_TierScore(Str("A")) > result.score
    /\ result.score > C6_TierScore(Str("C"))

\* two calls on the snapshot have returned
C7_TwoCalls == prev.done /\ result.done /\ ~prev.raised /\ ~result.raised

\* C7 as stated: two calls on one snapshot return the same score, however
\* their samples of now differ.
C7_CallsAlwaysAgree == C7_TwoCalls => prev.score = result.score

\* No whole-day boundary of the date field d lies between the instants a and b
\* (elapsed days for last_action_date and created_at, days ahead and the
\* instant itself for next_followup_date)
C7_SameElapsedDays(d, a, b) ==
    d.k = "str" => (a - d.t) \div TicksPerDay = (b - d.t) \div TicksPerDay
C7_SameDaysAhead(d, a, b) ==
    d.k = "str" =>
        /\ (d.t - a) \div TicksPerDay = (d.t - b) \div TicksPerDay
        /\ (d.t > a) = (d.t > b)

\* C7 as amended: two calls on one snapshot return the same score when no
\* whole-day boundary of a date field, and not the follow-up instant itself,
\* lies between their two samples of now.
C7_CallsAgreeWithinDay ==
    (/\ C7_TwoCalls
     /\ C7_SameElapsedDays(task.last_action_date, prev.at, result.at)
     /\ C7_SameElapsedDays(task.created_at, prev.at, result.at)
     /\ C7_SameDaysAhead(task.next_followup_date, prev.at, result.at))
        => prev.score = result.score

\* two calls one tick apart, with a last action and a follow-up whose day
\* counts are the same at both instants
C7_Witness ==
    /\ C7_TwoCalls
    /\ prev.at = 0 /\ result.at = 1
    /\ task.last_action_date = StrDate(Days(-20))
    /\ task.next_followup_date = StrDate(Days(3) + 1)
    /\ task.status = Str("open")
    /\ prev.score = result.score
    /\ result.score > MinUnits

\* C8: a negative potential_revenue scores like revenue 0 (the revenue
\* contribution is never below 0), and so does a missing or non-numeric one.
C8_NegativeRevenueAsZero ==
    (Returned /\ task.potential_revenue.k \in {"num", "none", "bad"}
              /\ task.potential_revenue.v <= 0)
        => result.score = calculate_task_score(WithRevenue(task, Revenue(0)), result.at).score

\* The score with last_action_date a date string d whole days and o ticks
\* before the instant of the latest call
C9_DaysChecked == 15
C9_ScoreAtDays(d, o) ==
    calculate_task_score(WithLastAction(task, StrDate(result.at - Days(d) - o)),
                         result.at).score
C9_Returns ==
    JustScored /\ ~calculate_task_score(WithLastAction(task, StrDate(0)), result.at).raised

\* C9: the score does not decrease as the whole days since last_action_date
\* grow from 0 to 15 (the ticks within a day change nothing), is the same at
\* 10 and at 20 days, and a last_action_date in the future scores like 0 days.
C9_StalenessMonotone ==
    C9_Returns =>
        /\ \A d \in 0..(C9_DaysChecked - 1) :
              C9_ScoreAtDays(d, TicksPerDay - 1) <= C9_ScoreAtDays(d + 1, 0)
        /\ \A d \in {0, StalenessCapDays - 1} :
              C9_ScoreAtDays(d, 0) = C9_ScoreAtDays(d, TicksPerDay - 1)
        /\ C9_ScoreAtDays(StalenessCapDays, 0) = C9_ScoreAtDays(2 * StalenessCapDays, 0)
        /\ \A f \in {1, Days(1)} :
              calculate_task_score(WithLastAction(task, StrDate(result.at + f)),
                                   result.at).score = C9_ScoreAtDays(0, 0)

\* a last action 20 days old scored like one 10 days old and above one 9 days
\* old
C9_Witness ==
    /\ Returned
    /\ task.last_action_date = StrDate(Days(-20))
    /\ result.at = 0
    /\ result.score = C9_ScoreAtDays(10, 0)
    /\ result.score > C9_ScoreAtDays(9, 0)

C10_RevenueScore(r) == calculate_task_score(WithRevenue(task, r), result.at).score
C10_Ladder == <<0, 1, 2500, 25000, 49999, 50000>>

\* C10: the score does not decrease as potential_revenue grows from 0 to
\* 50,000, and every revenue above 50,000 scores like 50,000.
C10_RevenueMonotone ==
    (JustScored /\ ~calculate_task_score(WithRevenue(task, Revenue(0)), result.at).raised) =>
        /\ \A i \in 1..(Len(C10_Ladder) - 1) :
              C10_RevenueScore(Revenue(C10_Ladder[i]))
                  <= C10_RevenueScore(Revenue(C10_Ladder[i + 1]))
        /\ \A r \in {Revenue(50001), Revenue(1000000), PInfRevenue} :
              C10_RevenueScore(r) = C10_RevenueScore(Revenue(max_reasonable_revenue))

\* revenue 1,000,000 scored like 50,000 and above 25,000
C10_Witness ==
    /\ Returned
    /\ task.potential_revenue = Revenue(1000000)
    /\ task.status = Str("open")
    /\ result.score = C10_RevenueScore(Revenue(max_reasonable_revenue))
    /\ result.score > C10_RevenueScore(Revenue(25000))

\* The outcome with next_followup_date a date string p ticks before the
\* instant of the latest call
C11_Overdue(p) == WithFollowup(task, StrDate(result.at - p))
C11_PastTicks == {1, Days(1), Days(1) + 1, Days(100)}
C11_Returns == JustScored /\ ~calculate_task_score(C11_Overdue(1), result.at).raised

\* C11: however far in the past the parsed next_followup_date lies (a tick,
\* a day, 100 days), the follow-up contribution is the full allotment
\* MAX_TASK_SCORE x weight['next_followup'] and the score is the same.
C11_OverdueSaturates ==
    C11_Returns =>
        \A p \in C11_PastTicks :
            /\ followup_score(C11_Overdue(p), result.at)
                   = (Scale * MAX_TASK_SCORE * TASK_SCORE_WEIGHTS.next_followup) \div 100
            /\ calculate_task_score(C11_Overdue(p), result.at).score
                   = calculate_task_score(C11_Overdue(1), result.at).score

\* a waiting task whose follow-up was due a tick before the call, scored like
\* the same task 100 days overdue and above the follow-up allotment
C11_Witness ==
    /\ Returned
    /\ task.next_followup_date = StrDate(0) /\ result.at = 1
    /\ task.status = Str("waiting")
    /\ task.customer_tier = Str("B")
    /\ task.potential_revenue = NoRevenue
    /\ result.score = calculate_task_score(C11_Overdue(Days(100)), result.at).score
    /\ result.score > Allot("next_followup")

\* The snapshot with next_followup_date a date string d whole days and o
\* ticks after the instant of the latest call
C12_Ahead(d, o) == WithFollowup(task, StrDate(result.at + Days(d) + o))
C12_WholeDays == 0 .. (FollowupWindowDays + 2)
C12_Full == (Scale * MAX_TASK_SCORE * TASK_SCORE_WEIGHTS.next_followup) \div 100
C12_Ladder(d) ==
    IF d >= FollowupWindowDays THEN 0
    ELSE C12_Full - d * (C12_Full \div FollowupWindowDays)

\* C12: a follow-up that is not overdue contributes the full allotment at 0
\* whole days, loses full/7 per whole day, is 0 from 7 whole days on and is
\* never negative; no or an unparseable next_followup_date contributes what a
\* follow-up DEFAULT_FOLLOWUP_DAYS whole days away contributes, and when the
\* task is not waiting the two score the same.
C12_FollowupLadder ==
    JustScored =>
        /\ \A d \in C12_WholeDays : \A o \in {0, TicksPerDay - 1} :
               /\ followup_score(C12_Ahead(d, o), result.at) = C12_Ladder(d)
               /\ followup_score(C12_Ahead(d, o), result.at) >= 0
        /\ \A x \in {NoDate, BadDate} :
               /\ followup_score(WithFollowup(task, x), result.at)
                      = C12_Ladder(DEFAULT_FOLLOWUP_DAYS)
               /\ Lower(task.status.s) # "waiting" =>
                      calculate_task_score(WithFollowup(task, x), result.at)
                          = calculate_task_score(C12_Ahead(DEFAULT_FOLLOWUP_DAYS, 0), result.at)

\* an open tier-A task with a follow-up three days and a tick ahead: four
\* sevenths of the follow-up allotment on top of the tier allotment, as without
\* a follow-up date
C12_Witness ==
    /\ Returned /\ result.at = 0
    /\ task.status = Str("open")
    /\ task.next_followup_date = StrDate(Days(3) + 1)
    /\ task.customer_tier = Str("A")
    /\ task.potential_revenue = NoRevenue
    /\ task.last_action_date = NoDate /\ task.created_at = NoDate
    /\ result.score = Allot("tier") + C12_Ladder(3)
    /\ result.score = calculate_task_score(WithFollowup(task, NoDate), result.at).score
    /\ C12_Ladder(3) * 7 = C12_Full * 4

\* C13: in each of last_action_date, created_at and next_followup_date a
\* string that is no date gives the outcome of the call on the same snapshot
\* without the field (so an unparseable last_action_date falls back to
\* created_at, an unparseable created_at to no elapsed days, an unparseable
\* next_followup_date to DEFAULT_FOLLOWUP_DAYS and no waiting override).
C13_UnparseableAsAbsent ==
    JustScored =>
        /\ calculate_task_score(WithLastAction(task, BadDate), result.at)
               = calculate_task_score(WithLastAction(task, NoDate), result.at)
        /\ calculate_task_score(WithCreated(task, BadDate), result.at)
               = calculate_task_score(WithCreated(task, NoDate), result.at)
        /\ calculate_task_score(WithFollowup(task, BadDate), result.at)
               = calculate_task_score(WithFollowup(task, NoDate), result.at)
        /\ days_since_last(WithLastAction(task, BadDate), result.at)
               = days_since_last(WithLastAction(task, NoDate), result.at)
        /\ days_since_last(WithCreated(WithLastAction(task, NoDate), BadDate), result.at) = 0
        /\ days_until_followup(WithFollowup(task, BadDate), result.at) = DEFAULT_FOLLOWUP_DAYS
        /\ ~waiting_override(WithFollowup(task, BadDate), result.at)

\* a waiting task with an unparseable follow-up date and a parseable creation
\* date: scored above the minimum, like the task without the follow-up date
\* and like the task whose last_action_date is unparseable
C13_Witness ==
    /\ Returned
    /\ task.status = Str("waiting")
    /\ task.next_followup_date = BadDate
    /\ task.last_action_date = NoDate
    /\ task.created_at = StrDate(Days(-7))
    /\ result.score > MinUnits
    /\ result.score = calculate_task_score(WithFollowup(task, NoDate), result.at).score
    /\ result.score = calculate_task_score(WithLastAction(task, BadDate), result.at).score

\* What a naive date string x contributes as the date the staleness is
\* counted from: whole elapsed days, floored at 0, capped at 10, a tenth of
\* the days_open allotment each
C14_Recency(x) ==
    LET days == (result.at - x.t) \div TicksPerDay
        whole == IF days < 0 THEN 0 ELSE IF days > StalenessCapDays THEN StalenessCapDays ELSE days
    IN  (whole * Scale * MAX_TASK_SCORE * TASK_SCORE_WEIGHTS.days_open)
            \div (100 * StalenessCapDays)
C14_CreatedValues ==
    {NoDate, BadDate, StrDate(Days(-7)), StrDate(Days(-30)), StrDate(Days(2)),
     NativeDate(Days(-7)), AwareDate(Days(-7))}

\* C14: with a parsed last_action_date the recency contribution counts the
\* whole days since that date and created_at has no influence on the outcome;
\* without last_action_date it counts the whole days since a parsed created_at;
\* without both the elapsed days and the contribution are 0.
C14_RecencySource ==
    JustScored =>
        /\ task.last_action_date.k = "str" =>
               /\ last_action_score(task, result.at) = C14_Recency(task.last_action_date)
               /\ \A c \in C14_CreatedValues :
                      calculate_task_score(WithCreated(task, c), result.at)
                          = calculate_task_score(task, result.at)
        /\ task.last_action_date.k = "none" =>
               /\ \A c \in {x \in C14_CreatedValues : x.k = "str"} :
                      last_action_score(WithCreated(task, c), result.at) = C14_Recency(c)
               /\ days_since_last(WithCreated(task, NoDate), result.at) = 0
               /\ last_action_score(WithCreated(task, NoDate), result.at) = 0

\* a task acted on 20 days ago and created 7 days ago: the full days_open
\* allotment on top of the default follow-up contribution, as without created_at
C14_Witness ==
    /\ Returned
    /\ task.last_action_date = StrDate(Days(-20))
    /\ task.created_at = StrDate(Days(-7))
    /\ task.status = Str("open") /\ task.customer_tier = NoText
    /\ task.potential_revenue = NoRevenue /\ task.next_followup_date = NoDate
    /\ result.score = Allot("days_open") + followup_score(task, result.at)
    /\ result.score = calculate_task_score(WithCreated(task, NoDate), result.at).score

C15_KnownTiers == {<<"a", "A">>, <<"b", "B">>, <<"c", "C">>}
C15_UnknownTiers == {Str("D"), Str("d"), Str("X"), Str(""), NoText}

\* C15: the tier is looked up without regard to case ('a' scores as 'A', 'b'
\* as 'B', 'c' as 'C', each with the weight TIER_WEIGHTS gives the capital),
\* and a tier that is no key of TIER_WEIGHTS ('D', the empty string, a
\* missing tier) contributes exactly 0 and scores like no tier.
C15_TierLookup ==
    JustScored =>
        /\ \A p \in C15_KnownTiers :
               /\ calculate_task_score(WithTier(task, Str(p[1])), result.at)
                      = calculate_task_score(WithTier(task, Str(p[2])), result.at)
               /\ tier_weight(WithTier(task, Str(p[1]))) = TIER_WEIGHTS[p[2]]
               /\ tier_score(WithTier(task, Str(p[1]))) > 0
        /\ \A x \in C15_UnknownTiers :
               /\ tier_score(WithTier(task, x)) = 0
               /\ calculate_task_score(WithTier(task, x), result.at)
                      = calculate_task_score(WithTier(task, NoText), result.at)

\* an open task of tier 'a' with nothing else set: the whole tier allotment
\* on top of the default follow-up contribution, as with tier 'A' and more
\* than with tier 'D'
C15_Witness ==
    /\ Returned
    /\ task.customer_tier = Str("a")
    /\ task.status = Str("open") /\ task.potential_revenue = NoRevenue
    /\ task.last_action_date = NoDate /\ task.created_at = NoDate
    /\ task.next_followup_date = NoDate
    /\ result.score = Allot("tier") + followup_score(task, result.at)
    /\ result.score = calculate_task_score(WithTier(task, Str("A")), result.at).score
    /\ result.score > calculate_task_score(WithTier(task, Str("D")), result.at).score

\* The task of the worked example, as the latest call saw it: open, tier A,
\* revenue 50,000, last action 10 whole days before the call, follow-up due
\* at the instant of the call
C16_Example ==
    /\ result.done
    /\ task.status = Str("open")
    /\ task.customer_tier = Str("A")
    /\ task.potential_revenue = Revenue(50000)
    /\ task.last_action_date.k = "str"
    /\ (result.at - task.last_action_date.t) \div TicksPerDay = 10
    /\ task.next_followup_date = StrDate(result.at)

\* C16: with the default configuration the task {status open, tier A,
\* revenue 50,000, last action 10 days ago, follow-up due now} scores exactly
\* 100, made of 40 (recency), 20 (follow-up), 20 (tier) and 20 (revenue).
C16_FullMarks ==
    C16_Example =>
        /\ ~result.raised
        /\ result.score = Scale * 100
        /\ last_action_score(task, result.at) = Scale * 40
        /\ followup_score(task, result.at) = Scale * 20
        /\ tier_score(task) = Scale * 20
        /\ revenue_score(task) = Fin(Scale * 20)

C16_Witness == C16_Example /\ Returned /\ result.score = MaxUnits

\* The task {}: every field the scorer reads is missing
C17_EmptyTask ==
    [status |-> NoText, customer_tier |-> NoText, potential_revenue |-> NoRevenue,
     last_action_date |-> NoDate, created_at |-> NoDate, next_followup_date |-> NoDate]

\* C17: the call on the empty task raises nothing and returns exactly the
\* follow-up contribution at DEFAULT_FOLLOWUP_DAYS, MAX_TASK_SCORE x 0.2 x
\* (1 - 3/7); the recency, tier and revenue contributions are 0.
C17_EmptyTaskScore ==
    (result.done /\ task = C17_EmptyTask) =>
        /\ ~result.raised
        /\ result.score * FollowupWindowDays
               = (Scale * MAX_TASK_SCORE * TASK_SCORE_WEIGHTS.next_followup
                     * (FollowupWindowDays - DEFAULT_FOLLOWUP_DAYS)) \div 100
        /\ result.score = followup_score(task, result.at)
        /\ last_action_score(task, result.at) = 0
        /\ tier_score(task) = 0
        /\ revenue_score(task) = Fin(0)

\* the empty task scored a tick after it was fetched: 80/7 points
C17_Witness ==
    /\ Returned /\ task = C17_EmptyTask /\ result.at = 1
    /\ result.score * 7 = Scale * 80

\* b holds the elements of a, each once
C18_Permutation(a, b) ==
    /\ Len(a) = Len(b)
    /\ \A i \in 1..Len(a) : \E j \in 1..Len(b) : b[j] = a[i]
    /\ \A j, k \in 1..Len(b) : b[j].id = b[k].id => j = k
\* scores never rise along l, and equal scores stand in the order of the
\* ids, which is the order get_open_tasks returned the rows in
C18_SortedStable(l) ==
    \A k \in 1..(Len(l) - 1) :
        /\ l[k].score >= l[k + 1].score
        /\ l[k].score = l[k + 1].score => l[k].id < l[k + 1].id

\* C18: the prioritized worklist the Tasks page builds is a permutation of
\* the scored tasks (every row of get_open_tasks that is not quick, with the
\* score it was given) in non-increasing order of score, tasks of equal
\* score in the order get_open_tasks returned them.
C18_WorklistSortedStable ==
    [][(pc = "sorting" /\ pc' = "shown") =>
           /\ C18_Permutation(open_tasks, open_tasks')
           /\ C18_SortedStable(open_tasks')
           /\ {open_tasks'[k].id : k \in 1..Len(open_tasks')}
                  = {rows[i].id : i \in {j \in 1..Len(rows) : rows[j].type # "quick"}}
      ]_vars

\* three rows fetched in the order B, A, B: the worklist shows the tier-A
\* task first and the two tier-B tasks after it in the order of the fetch
C18_Witness ==
    /\ pc = "shown"
    /\ Len(open_tasks) = 3
    /\ open_tasks[1].id = 2 /\ open_tasks[2].id = 1 /\ open_tasks[3].id = 3
    /\ open_tasks[1].score > open_tasks[2].score
    /\ open_tasks[2].score = open_tasks[3].score

\* Keys a task dict carries that are none of the six scored fields: the
\* ones the repository's tests pass and two columns of the tasks table
C19_OtherFields ==
    {[urgency |-> "high", days_since_last_action |-> 30, days_until_followup |-> -5],
     [urgency |-> "low", days_since_last_action |-> 1, days_until_followup |-> 14],
     [type |-> "quick", title |-> "Call the customer back"],
     [type |-> "normal", title |-> "", urgency |-> "medium", days_since_last_action |-> 0,
      days_until_followup |-> 0]}

\* C19: keys of the task other than status, customer_tier,
\* potential_revenue, last_action_date, created_at and next_followup_date
\* (urgency, days_since_last_action, days_until_followup, type, title)
\* change nothing: the call on the task with such keys added has the
\* outcome of the call on the task without them.
C19_OtherFieldsIgnored ==
    JustScored =>
        \A extra \in C19_OtherFields :
            calculate_task_score(task @@ extra, result.at)
                = [raised |-> result.raised, exc |-> result.exc, score |-> result.score]

\* a task created a week ago and never acted on scores on its creation date
\* (28 of the 40 recency points) although a days_since_last_action of 30 and a
\* days_until_followup of -5 are added to it
C19_Witness ==
    /\ Returned /\ JustScored
    /\ task.last_action_date = NoDate /\ task.created_at = StrDate(Days(-7))
    /\ task.next_followup_date = NoDate
    /\ task.status = Str("open") /\ task.customer_tier = NoText
    /\ task.potential_revenue = NoRevenue
    /\ result.score = Scale * 28 + followup_score(task, result.at)
    /\ calculate_task_score(
           task @@ [urgency |-> "high", days_since_last_action |-> 30,
                    days_until_followup |-> -5], result.at).score = result.score

C20_LowerTiers == {x \in {Str("B"), Str("C"), Str("D"), NoText} :
                      tier_weight(WithTier(task, x)) < tier_weight(task)}
C20_LowerRevenues == {r \in {-2000000, 0, 1000, 25000} : r < task.potential_revenue.v}

\* C20: of two tasks with the same date fields and no waiting override, the
\* one with both the higher tier weight and the higher potential_revenue
\* (not above the 50,000 ceiling) scores strictly higher; in particular
\* (tier A, revenue 50,000) scores above (tier C, revenue 1,000) when no date
\* field is set.
C20_HigherTierAndRevenueScoresHigher ==
    (/\ Returned /\ JustScored
     /\ ~waiting_override(task, result.at)
     /\ task.potential_revenue.k = "num"
     /\ task.potential_revenue.v <= max_reasonable_revenue) =>
        \A x \in C20_LowerTiers : \A r \in C20_LowerRevenues :
            calculate_task_score(WithRevenue(WithTier(task, x), Revenue(r)), result.at).score
                < result.score

\* C21: a call of calculate_task_score has no side effect and keeps no
\* state: the step that answers a call leaves the task it was handed as it
\* was, and its outcome is the one the task and the clock alone determine,
\* whatever calls came before it.
C21_SideEffectFree ==
    [][(result' # result \/ prev' # prev) =>
           /\ task' = task
           /\ now' = now
           /\ result'.done /\ result'.at = now
           /\ [raised |-> result'.raised, exc |-> result'.exc, score |-> result'.score]
                  = calculate_task_score(task, now)
      ]_vars

\* a waiting task scored before and at its follow-up instant: the second call
\* returns its own, different, score and the task is as it was fetched
C21_Witness ==
    /\ prev.done /\ result.done /\ ~prev.raised /\ ~result.raised
    /\ prev.at = 0 /\ result.at = 1
    /\ task.status = Str("waiting") /\ task.next_followup_date = StrDate(1)
    /\ prev.score = MinUnits /\ result.score > MinUnits
    /\ result.score = calculate_task_score(task, result.at).score

\* C22: when several invocations on independent snapshots are interleaved
\* in any order, each returns (or raises) what a call running alone on its
\* snapshot at the instant it sampled returns.
C22_EachAsIfAlone ==
    \A c \in Callers :
        calls[c].pc = "returned" =>
            calls[c].out = calculate_task_score(calls[c].task, calls[c].at)

\* two invocations side by side: the first sampled the clock a tick before
\* the second; they scored different tasks and returned different scores
C22_Witness ==
    /\ calls[1].pc = "returned" /\ calls[2].pc = "returned"
    /\ calls[1].at = 0 /\ calls[2].at = 1
    /\ calls[1].task # calls[2].task
    /\ ~calls[1].out.raised /\ ~calls[2].out.raised
    /\ calls[1].out.score # calls[2].out.score
    /\ calls[1].out.score > MinUnits /\ calls[2].out.score > MinUnits

\* The instants the snapshot is scored at, one after the other: from the
\* fetch until every date of the snapshots lies more than a day back
C23_Instants == 0 .. Days(4)

\* C23: for a snapshot that is not modified the score never falls as now
\* advances: of two calls that return, the later returns at least what the
\* earlier returned, and so does the scorer from each instant to the next
\* (staleness grows to its cap, the follow-up comes closer and saturates once
\* overdue, a waiting task leaves MIN_TASK_SCORE when its follow-up is no
\* longer ahead).
C23_ScoreNeverFalls ==
    /\ (prev.done /\ result.done /\ ~prev.raised /\ ~result.raised /\ prev.at <= result.at)
           => prev.score <= result.score
    /\ (JustScored /\ result.at = 0 /\ ~result.raised) =>
           \A n \in C23_Instants :
               calculate_task_score(task, n).score <= calculate_task_score(task, n + 1).score

\* an open task whose last action turns 10 days old between two calls, with
\* a follow-up due at the first and overdue at the second: the second score
\* is higher
C23_Witness ==
    /\ prev.done /\ result.done /\ ~prev.raised /\ ~result.raised
    /\ prev.at = 0 /\ result.at = 1
    /\ task.status = Str("open")
    /\ task.last_action_date = StrDate(Days(-10) + 1)
    /\ task.next_followup_date = StrDate(0)
    /\ prev.score < result.score

\* The revenue float() yields is a number that is not negative
C24_RevenueNotNegative ==
    \/ task.potential_revenue.k \in {"none", "bad", "pinf"}
    \/ task.potential_revenue.k = "num" /\ task.potential_revenue.v >= 0
\* Each factor is at its cap: 10 or more elapsed days, a follow-up due today
\* or overdue, the tier of the highest weight, revenue at or above the ceiling
C24_AllSaturated ==
    /\ days_since_last(task, result.at) >= StalenessCapDays
    /\ days_until_followup(task, result.at) <= 0
    /\ Upper(task.customer_tier.s) = "A"
    /\ \/ task.potential_revenue.k = "pinf"
       \/ task.potential_revenue.k = "num" /\ task.potential_revenue.v >= max_reasonable_revenue

C25_Listed(l) == {l[i] : i \in 1..Len(l)}

\* C25: get_open_tasks and get_quick_tasks never return a row whose status
\* is 'done', and a task mark_task_done has returned True for is, in every
\* later state and whatever add_task and mark_task_done calls followed, in
\* none of get_open_tasks(), get_quick_tasks() and the worklist the page
\* builds from get_open_tasks().
C25_DoneStaysOut ==
    /\ \A r \in C25_Listed(rows) \cup C25_Listed(quick_tasks) \cup C25_Listed(open_tasks) :
           r.snap.status # Str("done")
    /\ \A task_id \in marked :
           /\ task_id \notin Ids(get_open_tasks(store))
           /\ task_id \notin Ids(get_quick_tasks(store))
           /\ task_id \notin Ids(SelectSeq(get_open_tasks(store), NotQuick))
           /\ \E i \in 1..Len(store) : store[i].id = task_id /\ store[i].snap.status = Str("done")

\* task 1 was marked done, a task was added after it, and the page's next
\* pass lists the new task alone
C25_Witness ==
    /\ marked = {1}
    /\ Len(store) = 2
    /\ last.op = "add_task" /\ last.ret
    /\ pc = "shown"
    /\ Ids(open_tasks) = {2}
    /\ Ids(quick_tasks) = {}

\* a step in which mark_task_done was called
C26_Called == last'.op = "mark_task_done" /\ <<store, last>>' # <<store, last>>
C26_Exists(db, task_id) == \E i \in 1..Len(db) : db[i].id = task_id

\* C26: mark_task_done(task_id) returns True exactly when a row with that id
\* exists (and the database answers), and then the row's status is 'done';
\* for an id that matches no row and on a database error it returns False and
\* leaves every row as it was; it changes no row but the one with the id,
\* and of that row only the status.
C26_MarkTaskDoneContract ==
    [][C26_Called =>
           /\ last'.ret = (last'.db_up /\ C26_Exists(store, last'.id))
           /\ last'.ret =>
                  \E i \in 1..Len(store') :
                      store'[i].id = last'.id /\ store'[i].snap.status = Str("done")
           /\ ~last'.ret => store' = store
           /\ Len(store') = Len(store)
           /\ \A i \in 1..Len(store) :
                  /\ store[i].id # last'.id => store'[i] = store[i]
                  /\ store'[i].id = store[i].id /\ store'[i].type = store[i].type
      ]_vars

\* task 1 of two open tasks was marked done: the call returned True and the
\* other task is still open
C26_Witness ==
    /\ last = [op |-> "mark_task_done", id |-> 1, ret |-> TRUE, db_up |-> TRUE]
    /\ Len(store) = 2
    /\ store[1].snap.status = Str("done")
    /\ store[2].snap.status = Str("open")
    /\ marked = {1}

\* a step in which add_task was called
C27_Called == last'.op = "add_task" /\ <<store, last>>' # <<store, last>>

\* C27: add_task(data) returns a boolean; when it returns True the insert is
\* committed and the table holds exactly one row more, the new task, after
\* the rows it held; when it returns False the table is unchanged.
C27_AddTaskContract ==
    [][C27_Called =>
           /\ last'.ret \in BOOLEAN
           /\ last'.ret =>
                  /\ Len(store') = Len(store) + 1
                  /\ SubSeq(store', 1, Len(store)) = store
                  /\ store'[Len(store')].id \notin Ids(store)
                  /\ store'[Len(store')].snap.status \in {Str("open"), NoText}
           /\ ~last'.ret => store' = store
      ]_vars

\* a quick task without a status was added to a table of one task
C27_Witness ==
    /\ last.op = "add_task" /\ last.ret /\ last.id = 2
    /\ Len(store) = 2
    /\ store[2].type = "quick" /\ store[2].snap.status = NoText
    /\ store[1].snap.status = Str("open")

\* C28: get_task_summary reports the current store: the total_open_tasks
\* it returns is the number of tasks get_open_tasks returns at the time of
\* the call, so a task marked done is not counted by the next call.
C28_SummaryIsCurrent ==
    summary.called => summary.total_open_tasks = summary.open_at_call

\* a step in which a checkbox or a Complete button of the page was clicked
C29_Clicked == pc \in {"shown", "empty"} /\ pc' = "quick"

\* C29: on the Tasks page the "marked as done" success message for a task
\* is shown only if the mark_task_done call of that click returned True,
\* that is, set that task's status to 'done'; a failed or no-op call never
\* produces the message.
C29_SuccessOnlyWhenMarked ==
    [][C29_Clicked /\ message'.kind = "success" =>
           /\ last'.op = "mark_task_done"
           /\ last'.id = message'.id
           /\ last'.ret
           /\ \E i \in 1..Len(store') :
                  store'[i].id = message'.id /\ store'[i].snap.status = Str("done")
      ]_vars

\* the step of a render pass in which the second of the two lists is queried
C30_SecondQuery == pc = "open" /\ pc' = "render"

\* the stored tasks that are not marked done, by kind
C30_StoredQuick(db) ==
    {db[i].id : i \in {j \in 1..Len(db) :
                          db[j].type = "quick" /\ db[j].snap.status # Str("done")}}
C30_StoredOther(db) ==
    {db[i].id : i \in {j \in 1..Len(db) :
                          db[j].type # "quick" /\ db[j].snap.status # Str("done")}}

\* C30: in one render pass of the Tasks page the Quick Tasks list and the
\* Prioritized Tasks list are disjoint and together hold exactly the stored
\* tasks that are not marked done, the quick ones in the former and all
\* others in the latter, also for tasks without a status and when another
\* session adds or marks tasks between the two queries.  (A list left
\* empty by a failing query is not counted against the statement.)
C30_ListsPartitionOpenTasks ==
    [][C30_SecondQuery =>
           LET quick == Ids(quick_tasks')
               other == Ids(SelectSeq(rows', NotQuick))
           IN  /\ quick \cap other = {}
               /\ quick \in {C30_StoredQuick(store'), {}}
               /\ other \in {C30_StoredOther(store'), {}}
      ]_vars

====
